---- MODULE Spec2Model ----
(* Model of the rust_helpers library (src/src/lib.rs): the three randomized    *)
(* partitioning functions and check_sufficient_items.  Every function is a    *)
(* single synchronous call; a behaviour of the model is one call: Init draws  *)
(* the function and its arguments, the function's action runs it to its       *)
(* return or to its panic.                                                     *)
EXTENDS Integers, Sequences, FiniteSets

\* ---------------------------------------------------------------- bounds
\* element values of an input Vec<T> are 1..NumVals (duplicates allowed)
NumVals == 2
\* longest input Vec<T>
MaxLen == 4
\* a HashSet<T> is a subset of 1..MaxSet
MaxSet == 3
\* chunk_size and parts range over 0..MaxParam
MaxParam == 4
\* items of the sufficiency check are 1..NumItems
NumItems == 2
\* longest requirement list
MaxReqLen == 2
\* required numbers range over 0..MaxReqNum
MaxReqNum == 2
\* longest checked vector
MaxChecked == 2

Vals == 1..NumVals
SetVals == 1..MaxSet
Items == 1..NumItems

SeqsUpTo(S, n) == UNION {[1..k -> S] : k \in 0..n}

VARIABLES fn, vec, hashset, chunk_size, parts, req_items, checked_vector,
          shuffled, result, sufficient, pc

vars == <<fn, vec, hashset, chunk_size, parts, req_items, checked_vector,
          shuffled, result, sufficient, pc>>

\* ------------------------------------------------------- pure helpers
\* slice::swap
Swap(v, i, j) == [v EXCEPT ![i] = v[j], ![j] = v[i]]

\* the random indices one shuffle of n elements draws: for position i
\* (from the back, 1-based) an index in 1..i
Draws(n) == {d \in [1..n -> 1..n] : \A i \in 1..n : d[i] <= i}

\* vec.shuffle(&mut rng): Fisher-Yates, from the last position down,
\* swapping position i with the drawn position d[i] <= i
RECURSIVE ShuffleFrom(_, _, _)
ShuffleFrom(v, d, i) ==
    IF i < 2 THEN v ELSE ShuffleFrom(Swap(v, i, d[i]), d, i - 1)

shuffle(v, d) == ShuffleFrom(v, d, Len(v))

\* a bug: the remainder chunk is dropped (chunks_exact instead of chunks)
RECURSIVE chunks_exact(_, _)
chunks_exact(v, size) ==
    IF Len(v) < size THEN <<>>
    ELSE <<SubSeq(v, 1, size)>> \o chunks_exact(SubSeq(v, size + 1, Len(v)), size)

\* a bug: the remainder is folded into the last full chunk
RECURSIVE chunks_merged(_, _)
chunks_merged(v, size) ==
    IF Len(v) = 0 THEN <<>>
    ELSE IF Len(v) < 2 * size THEN <<v>>
    ELSE <<SubSeq(v, 1, size)>> \o chunks_merged(SubSeq(v, size + 1, Len(v)), size)

\* vec.chunks(chunk_size).map(|chunk| chunk.to_vec()).collect(), size >= 1
RECURSIVE chunks(_, _)
chunks(v, size) ==
    IF Len(v) = 0 THEN <<>>
    ELSE IF Len(v) <= size THEN <<v>>
    ELSE <<SubSeq(v, 1, size)>> \o chunks(SubSeq(v, size + 1, Len(v)), size)

\* a bug: one group too many
new_groups_extra(v, n) == [g \in 1..(n + 1) |-> <<>>]

\* a bug: never more groups than elements
new_groups_capped(v, n) == [g \in 1..(IF Len(v) < n THEN Len(v) ELSE n) |-> <<>>]

\* vec![Vec::new(); parts]
new_groups(v, n) == [g \in 1..n |-> <<>>]

\* a bug: the group index is taken one position late
group_index_shifted(i, n) == (i + 1) % n

\* i % parts, the 0-based group of the element at 0-based position i
group_index(i, n) == i % n

\* a bug: the loop stops one element early
loop_end_short(v) == IF Len(v) = 0 THEN 0 ELSE Len(v) - 1

\* vec.iter().enumerate() visits every position
loop_end(v) == Len(v)

\* for (i, e) in vec.iter().enumerate() { result[i % parts].push(e.clone()) }
\* from 0-based position i on; parts >= 1
RECURSIVE distribute(_, _, _, _)
distribute(v, n, i, res) ==
    IF i >= loop_end(v) THEN res
    ELSE distribute(v, n, i + 1,
             [res EXCEPT ![group_index(i, n) + 1] = Append(@, v[i + 1])])

\* checked_vector.iter().filter(|x| *x == item).count()
RECURSIVE count(_, _)
count(v, item) ==
    IF Len(v) = 0 THEN 0
    ELSE (IF v[1] = item THEN 1 ELSE 0) + count(Tail(v), item)

\* a bug: <= instead of <
RECURSIVE check_strict(_, _)
check_strict(req, checked) ==
    IF Len(req) = 0 THEN TRUE
    ELSE IF count(checked, req[1][1]) <= req[1][2] THEN FALSE
    ELSE check_strict(Tail(req), checked)

\* a bug: the requirements on one item are added up
RECURSIVE SumFor(_, _)
SumFor(req, item) ==
    IF Len(req) = 0 THEN 0
    ELSE (IF req[1][1] = item THEN req[1][2] ELSE 0) + SumFor(Tail(req), item)

check_summed(req, checked) ==
    \A k \in DOMAIN req : count(checked, req[k][1]) >= SumFor(req, req[k][1])

\* a bug: only the first requirement is looked at
check_first(req, checked) ==
    IF Len(req) = 0 THEN TRUE
    ELSE count(checked, req[1][1]) >= req[1][2]

\* check_sufficient_items: the loop over req_items with its early return
RECURSIVE check_sufficient_items(_, _)
check_sufficient_items(req, checked) ==
    IF Len(req) = 0 THEN TRUE
    ELSE IF count(checked, req[1][1]) < req[1][2] THEN FALSE
    ELSE check_sufficient_items(Tail(req), checked)

\* the enumeration orders vec.into_iter().collect() can give for a HashSet
Enumerations(s) ==
    {e \in [1..Cardinality(s) -> s] : \A i, j \in DOMAIN e : i # j => e[i] # e[j]}

\* -------------------------------------------------------------- Init
Init ==
    /\ pc = "call"
    /\ shuffled = <<>>
    /\ result = <<>>
    /\ sufficient = FALSE
    /\ fn \in {"split_rand_vec", "split_rand_vec_eq", "split_rand_hashset_eq",
               "check_sufficient_items"}
    /\ vec \in (IF fn \in {"split_rand_vec", "split_rand_vec_eq"}
                THEN SeqsUpTo(Vals, MaxLen) ELSE {<<>>})
    /\ hashset \in (IF fn = "split_rand_hashset_eq" THEN SUBSET SetVals ELSE {{}})
    /\ chunk_size \in (IF fn = "split_rand_vec" THEN 0..MaxParam ELSE {0})
    /\ parts \in (IF fn \in {"split_rand_vec_eq", "split_rand_hashset_eq"}
                  THEN 0..MaxParam ELSE {0})
    /\ req_items \in (IF fn = "check_sufficient_items"
                      THEN SeqsUpTo(Items \X (0..MaxReqNum), MaxReqLen) ELSE {<<>>})
    /\ checked_vector \in (IF fn = "check_sufficient_items"
                           THEN SeqsUpTo(Items, MaxChecked) ELSE {<<>>})

\* ----------------------------------------------------------- actions
Inputs == <<fn, vec, hashset, chunk_size, parts, req_items, checked_vector>>

\* split_rand_vec(vec, chunk_size); slice::chunks panics on chunk_size 0
SplitRandVec ==
    /\ pc = "call" /\ fn = "split_rand_vec"
    /\ \E d \in Draws(Len(vec)) :
          /\ shuffled' = shuffle(vec, d)
          /\ IF chunk_size = 0
             THEN pc' = "panicked" /\ result' = <<>>
             ELSE pc' = "returned" /\ result' = chunks(shuffled', chunk_size)
    /\ UNCHANGED <<Inputs, sufficient>>

\* the body shared by split_rand_vec_eq and split_rand_hashset_eq once the
\* shuffled Vec s is there: with parts = 0 the first i % parts panics, and
\* an empty Vec never gets there
SplitEq(s) ==
    /\ shuffled' = s
    /\ IF parts = 0 /\ Len(s) > 0
       THEN pc' = "panicked" /\ result' = <<>>
       ELSE pc' = "returned" /\ result' = distribute(s, parts, 0, new_groups(s, parts))

\* split_rand_vec_eq(vec, parts)
SplitRandVecEq ==
    /\ pc = "call" /\ fn = "split_rand_vec_eq"
    /\ \E d \in Draws(Len(vec)) : SplitEq(shuffle(vec, d))
    /\ UNCHANGED <<Inputs, sufficient>>

\* split_rand_hashset_eq(vec, parts)
SplitRandHashsetEq ==
    /\ pc = "call" /\ fn = "split_rand_hashset_eq"
    /\ \E e \in Enumerations(hashset) :
          \E d \in Draws(Len(e)) : SplitEq(shuffle(e, d))
    /\ UNCHANGED <<Inputs, sufficient>>

\* check_sufficient_items(req_items, checked_vector)
CheckSufficientItems ==
    /\ pc = "call" /\ fn = "check_sufficient_items"
    /\ sufficient' = check_sufficient_items(req_items, checked_vector)
    /\ pc' = "returned"
    /\ UNCHANGED <<Inputs, shuffled, result>>

Next ==
    \/ SplitRandVec
    \/ SplitRandVecEq
    \/ SplitRandHashsetEq
    \/ CheckSufficientItems

Spec == Init /\ [][Next]_vars

\* ------------------------------------------------- claim vocabulary
Returned(f) == pc = "returned" /\ fn = f

\* the input collection's size and the multiplicity of x in it
InputSize == IF fn = "split_rand_hashset_eq" THEN Cardinality(hashset) ELSE Len(vec)
InputCount(x) ==
    IF fn = "split_rand_hashset_eq" THEN (IF x \in hashset THEN 1 ELSE 0)
    ELSE count(vec, x)

RECURSIVE SumSizes(_)
SumSizes(groups) ==
    IF Len(groups) = 0 THEN 0 ELSE Len(groups[1]) + SumSizes(Tail(groups))

RECURSIVE CountInGroups(_, _)
CountInGroups(groups, x) ==
    IF Len(groups) = 0 THEN 0
    ELSE count(groups[1], x) + CountInGroups(Tail(groups), x)

\* ceil(a / b) for b >= 1 and a > -b
Ceil(a, b) == (a + b - 1) \div b

AllVals == Vals \cup SetVals

\* C1: whenever one of the three partitioning functions returns with its
\* parameter >= 1, the group sizes add up to the input size and every value
\* occurs in the groups exactly as often as in the input.
C1_GroupsPartitionInput ==
    /\ (Returned("split_rand_vec") /\ chunk_size >= 1)
          => /\ SumSizes(result) = Len(vec)
             /\ \A x \in AllVals : CountInGroups(result, x) = count(vec, x)
    /\ ((Returned("split_rand_vec_eq") \/ Returned("split_rand_hashset_eq"))
           /\ parts >= 1)
          => /\ SumSizes(result) = InputSize
             /\ \A x \in AllVals : CountInGroups(result, x) = InputCount(x)

\* a call on a Vec with a duplicated value that the shuffle reordered and
\* that left a remainder chunk
C1_Witness ==
    /\ Returned("split_rand_vec") /\ chunk_size = 3
    /\ vec = <<1, 2, 1, 2>> /\ shuffled # vec
    /\ Len(result) = 2

\* C2: split_rand_vec with chunk_size >= 1 returns ceil(n / chunk_size)
\* groups, none longer than chunk_size, all but the last of exactly
\* chunk_size elements, the last one non-empty.
C2_ChunkShape ==
    (Returned("split_rand_vec") /\ chunk_size >= 1) =>
        /\ Len(result) = Ceil(Len(vec), chunk_size)
        /\ \A g \in DOMAIN result :
              /\ Len(result[g]) <= chunk_size
              /\ g < Len(result) => Len(result[g]) = chunk_size
              /\ Len(result[g]) >= 1

\* 4 elements in chunks of 3: two groups, the last the remainder of 1
C2_Witness ==
    /\ Returned("split_rand_vec") /\ chunk_size = 3 /\ Len(vec) = 4
    /\ Len(result) = 2 /\ Len(result[2]) = 1

\* C3: split_rand_vec_eq with parts >= 1 returns exactly parts groups whose
\* sizes differ by at most 1 and add up to the input size.
C3_EqShape ==
    (Returned("split_rand_vec_eq") /\ parts >= 1) =>
        /\ Len(result) = parts
        /\ \A g, h \in DOMAIN result : Len(result[g]) - Len(result[h]) <= 1
        /\ SumSizes(result) = Len(vec)

\* more parts than elements: some groups stay empty
C3_Witness ==
    /\ Returned("split_rand_vec_eq") /\ parts = 3 /\ Len(vec) = 2
    /\ Len(result) = 3 /\ result[3] = <<>>

\* C4: split_rand_hashset_eq with parts >= 1 returns exactly parts groups
\* and every element of the set is at exactly one position of exactly one
\* group, whatever the enumeration order and the shuffle.
C4_SetElementsOnce ==
    (Returned("split_rand_hashset_eq") /\ parts >= 1) =>
        /\ Len(result) = parts
        /\ \A x \in hashset :
              Cardinality({p \in (DOMAIN result) \X (1..Len(shuffled)) :
                              /\ p[2] \in DOMAIN result[p[1]]
                              /\ result[p[1]][p[2]] = x}) = 1
        /\ \A g \in DOMAIN result : \A k \in DOMAIN result[g] :
              result[g][k] \in hashset

\* a three-element set in two groups, in an order that is not the sorted one
C4_Witness ==
    /\ Returned("split_rand_hashset_eq") /\ parts = 2
    /\ hashset = {1, 2, 3} /\ shuffled = <<3, 1, 2>>
    /\ result = << <<3, 2>>, <<1>> >>

\* the largest number required of item x in req (0 when x is not required)
RECURSIVE MaxFor(_, _)
MaxFor(req, x) ==
    IF Len(req) = 0 THEN 0
    ELSE LET m == MaxFor(Tail(req), x)
         IN  IF req[1][1] = x /\ req[1][2] > m THEN req[1][2] ELSE m

Occurrences(req, x) == Cardinality({k \in DOMAIN req : req[k][1] = x})

\* C5: check_sufficient_items returns true exactly when every (item, min)
\* pair finds at least min elements of checked_vector equal to item; so an
\* empty requirement list gives true, [(x, 0)] against nothing gives true,
\* and [(x, k)] against fewer than k copies of x gives false.
C5_SufficientIffAllMet ==
    Returned("check_sufficient_items") =>
        /\ sufficient
              = (\A k \in DOMAIN req_items :
                    count(checked_vector, req_items[k][1]) >= req_items[k][2])
        /\ req_items = <<>> => sufficient
        /\ (Len(req_items) = 1 /\ req_items[1][2] = 0 /\ checked_vector = <<>>)
              => sufficient
        /\ (Len(req_items) = 1
               /\ count(checked_vector, req_items[1][1]) < req_items[1][2])
              => ~sufficient

\* the first requirement is met, the second is not: the loop returns false
\* on its second round
C5_Witness ==
    /\ Returned("check_sufficient_items")
    /\ req_items = << <<1, 1>>, <<2, 2>> >>
    /\ checked_vector = <<2, 1>>
    /\ ~sufficient

\* C6: a zero chunk_size or parts never lets a partitioning call return
\* normally, whatever the input collection, the empty one included.
C6_ZeroParameterRejected ==
    /\ (fn = "split_rand_vec" /\ chunk_size = 0) => pc # "returned"
    /\ (fn \in {"split_rand_vec_eq", "split_rand_hashset_eq"} /\ parts = 0)
          => pc # "returned"

\* C7: on an empty collection, split_rand_vec_eq and split_rand_hashset_eq
\* with parts >= 1 return exactly parts empty groups, and split_rand_vec
\* with chunk_size >= 1 returns groups that hold no element; none panics.
C7_EmptyInput ==
    /\ (fn \in {"split_rand_vec_eq", "split_rand_hashset_eq"}
           /\ InputSize = 0 /\ parts >= 1 /\ pc # "call")
          => /\ pc = "returned"
             /\ Len(result) = parts
             /\ \A g \in DOMAIN result : result[g] = <<>>
    /\ (fn = "split_rand_vec" /\ Len(vec) = 0 /\ chunk_size >= 1 /\ pc # "call")
          => /\ pc = "returned"
             /\ \A g \in DOMAIN result : result[g] = <<>>

\* the empty Vec split into three parts
C7_Witness ==
    /\ Returned("split_rand_vec_eq") /\ vec = <<>> /\ parts = 3
    /\ result = << <<>>, <<>>, <<>> >>

\* C8: in split_rand_vec_eq and split_rand_hashset_eq with parts >= 1 the
\* element at 0-based position i of the shuffled sequence is the
\* (i div parts)-th element of group i mod parts, so 0-based group g holds
\* ceil((n - g) / parts) elements: the first n mod parts groups one more
\* than the rest, whatever the shuffle.
C8_RoundRobin ==
    ((Returned("split_rand_vec_eq") \/ Returned("split_rand_hashset_eq"))
        /\ parts >= 1) =>
        /\ Len(result) = parts
        /\ \A i \in 0..(Len(shuffled) - 1) :
              /\ (i \div parts) + 1 \in DOMAIN result[(i % parts) + 1]
              /\ result[(i % parts) + 1][(i \div parts) + 1] = shuffled[i + 1]
        /\ \A g \in 0..(parts - 1) :
              /\ Len(result[g + 1]) = Ceil(InputSize - g, parts)
              /\ Len(result[g + 1])
                    = (InputSize \div parts)
                         + (IF g < InputSize % parts THEN 1 ELSE 0)

\* 4 elements in 3 parts: sizes 2, 1, 1 in group order, after a shuffle
\* that moved elements
C8_Witness ==
    /\ Returned("split_rand_vec_eq") /\ parts = 3
    /\ vec = <<1, 1, 2, 2>> /\ shuffled = <<2, 1, 2, 1>>
    /\ result = << <<2, 1>>, <<1>>, <<2>> >>

\* C9: requirements that name the same item x are each checked against the
\* same count and never added up: a list whose pairs all name x gives true
\* exactly when the count of x reaches the largest of the required numbers,
\* and in any list a true result means exactly that for every repeated x
\* when the other items' requirements are met.
C9_DuplicatesNotSummed ==
    Returned("check_sufficient_items") =>
        \A x \in Items :
            Occurrences(req_items, x) >= 2 =>
                LET othersMet ==
                        \A k \in DOMAIN req_items :
                            req_items[k][1] # x =>
                                count(checked_vector, req_items[k][1])
                                    >= req_items[k][2]
                IN  /\ sufficient => count(checked_vector, x) >= MaxFor(req_items, x)
                    /\ othersMet =>
                          (sufficient
                              = (count(checked_vector, x) >= MaxFor(req_items, x)))

\* [(x, 1), (x, 1)] against [x]: true, although 1 + 1 > 1
C9_Witness ==
    /\ Returned("check_sufficient_items")
    /\ req_items = << <<1, 1>>, <<1, 1>> >>
    /\ checked_vector = <<1>>
    /\ sufficient

\* the permutations of a sequence
PermsOf(s) ==
    {[k \in DOMAIN s |-> s[p[k]]] :
        p \in {q \in [DOMAIN s -> DOMAIN s] :
                  \A i, j \in DOMAIN s : i # j => q[i] # q[j]}}

\* s with e put in after its first k elements
InsertAt(s, k, e) == SubSeq(s, 1, k) \o <<e>> \o SubSeq(s, k + 1, Len(s))

RequiredItems(req) == {req[k][1] : k \in DOMAIN req}

\* C10: the returned boolean is the one the function gives for every
\* permutation of the requirement list, for every permutation of the
\* checked vector, and for the checked vector with an element equal to no
\* required item put in anywhere.
C10_OrderAndUnrelatedItems ==
    Returned("check_sufficient_items") =>
        /\ \A r \in PermsOf(req_items) :
              check_sufficient_items(r, checked_vector) = sufficient
        /\ \A c \in PermsOf(checked_vector) :
              check_sufficient_items(req_items, c) = sufficient
        /\ \A e \in Items \ RequiredItems(req_items) :
              \A k \in 0..Len(checked_vector) :
                 check_sufficient_items(req_items, InsertAt(checked_vector, k, e))
                    = sufficient

\* the unmet requirement comes second, so the early return is not taken on
\* the first round, and the checked vector holds an item nobody requires
C10_Witness ==
    /\ Returned("check_sufficient_items")
    /\ req_items = << <<1, 1>>, <<1, 2>> >>
    /\ checked_vector = <<2, 1>>
    /\ ~sufficient

====
